---- MODULE Spec2Model ----
(***************************************************************************)
(* A model of src/two_resource_dqn/dqn_agent.py: the ReplayBuffer (a       *)
(* deque with maxlen, sampled at random below its newest entry) and the    *)
(* DQNAgent's step / train / reset_for_new_episode, with the two QNet      *)
(* instances qnet (online) and qnet_support (target).                      *)
(*                                                                         *)
(* Abstractions.  A network is the record [params, nbt]: params stands for *)
(* the nn.Parameter tensors (an opaque value out of Params), nbt for the   *)
(* BatchNorm buffers of its state_dict (num_batches_tracked, which every   *)
(* forward pass of a module left in training mode advances).  The forward  *)
(* pass is a fixed deterministic function of the parameters and the input. *)
(* An optimizer step replaces the online params by any value of Params     *)
(* (the same value included: the clamp in the loss has a zero gradient for *)
(* a TD error outside [-1, 1]).  An image is modelled by the number of the *)
(* frame it shows.  Optional values are sequences: <<>> is None, <<x>> is  *)
(* x.  Python is taken in its default mode (assert statements enabled); an *)
(* exception that leaves step ends the run (the source catches nothing).   *)
(***************************************************************************)
EXTENDS Integers, Sequences, FiniteSets

\* ---------------------------------------------------------------- bounds
MaxCapacity == 2    \* largest replay_buffer_size of an agent
MaxBufferSize == 3  \* largest buffer_size of a stand-alone ReplayBuffer
MaxAppends == 4     \* appends made to a stand-alone ReplayBuffer
MaxSteps == 4       \* step calls made to one agent

VectorValues == {0, 1}          \* vector observations of a stand-alone buffer's experiences
StepVectors == {0}              \* vector observations fed to step (the frame number varies)
ActionCounts == {1, 2}          \* n_action
Params == {0, 1}                \* values of a network's parameters
StartValues == {0, 1}           \* training_start_from
BatchSizes == {1, 2}            \* batch_size
IterationValues == {-1, 0, 1, 2}  \* iteration (sync interval)
\* eps_e_greedy and the draws of random.random(), in tenths
EpsValues == {0, 5, 10}
RandomDraws == {0, 4, 9}

VARIABLES
    buffer_size,         \* ReplayBuffer.buffer_size (deque maxlen)
    buffer_experience,   \* ReplayBuffer.buffer_experience, oldest first
    n_experience,        \* ReplayBuffer.n_experience
    n_action, training_start_from, batch_size, iteration,   \* agent configuration
    qnet,                \* online network
    qnet_support,        \* target network
    eps_e_greedy,
    time_tick,
    prev_observation,    \* _prev_observation (optional)
    prev_action,         \* _prev_action (optional)
    pc,                  \* "ready", or "raised" once an exception left step
    calls,               \* history: number of step calls made
    returned,            \* history: the action each step call returned, by call
    reset_after,         \* history: the step calls followed by a reset_for_new_episode
    last_sync_call,      \* history: the step call of the latest target sync (0: construction)
    sync_snapshot,       \* history: the online params at the latest sync point
    train_count,         \* history: number of train() invocations that completed
    appended,            \* history: the experiences appended to a stand-alone buffer
    last                 \* history: what the latest operation did and returned

bufferVars == <<buffer_size, buffer_experience, n_experience>>
configVars == <<n_action, training_start_from, batch_size, iteration>>
agentVars == <<qnet, qnet_support, eps_e_greedy, time_tick, prev_observation, prev_action>>
historyVars == <<pc, calls, returned, reset_after, last_sync_call, sync_snapshot, train_count>>
vars == <<bufferVars, configVars, agentVars, historyVars, appended, last>>

None == <<>>
Some(x) == <<x>>

\* ------------------------------------------------------------ data model
Observation(im, vec) == [image |-> im, vector |-> vec]

Experience(obs, act, next_obs) ==
    [observation |-> obs, action |-> act, next_observation |-> next_obs]

\* ---------------------------------------------------------- ReplayBuffer
\* Faulty variant: a plain list: nothing is ever evicted
append_unbounded(buf, maxlen, e) == Append(buf, e)

\* deque(maxlen).append: add at the right, drop from the left beyond maxlen
append(buf, maxlen, e) ==
    LET grown == Append(buf, e)
    IN  IF Len(grown) > maxlen THEN Tail(grown) ELSE grown

\* deque indexing as Python does it: 0-based, negative indices from the tail
deque_getitem(buf, i) ==
    IF i >= 0 /\ i < Len(buf) THEN [kind |-> "ok", value |-> Some(buf[i + 1])]
    ELSE IF i < 0 /\ i >= -Len(buf) THEN [kind |-> "ok", value |-> Some(buf[Len(buf) + i + 1])]
    ELSE [kind |-> "IndexError", value |-> None]

\* Faulty variant: the assertion lets the newest entry through
get_single_experience_newest(buf, n, time_step) ==
    IF ~(n > time_step)
    THEN [kind |-> "AssertionError", value |-> None]
    ELSE deque_getitem(buf, time_step)

get_single_experience(buf, n, time_step) ==
    IF ~(n - 1 > time_step)
    THEN [kind |-> "AssertionError", value |-> None]
    ELSE deque_getitem(buf, time_step)

\* Faulty variant: the draw is over range(n), the newest entry included
batch_draws_all(n, bsize) ==
    IF bsize >= 1 /\ n <= 0 THEN {<<>>} ELSE [1..bsize -> 0..(n - 1)]

\* The index sequences get_batch_experience can draw: one random.choice out of
\* range(n - 1) per round; no index is drawn when random.choice raises
batch_draws(n, bsize) ==
    IF bsize >= 1 /\ n - 1 <= 0 THEN {<<>>} ELSE [1..bsize -> 0..(n - 2)]

\* get_batch_experience for one drawn index sequence.  random.choice raises
\* IndexError on an empty range, in the first round; a failing
\* get_single_experience would propagate its error.
get_batch_experience(buf, n, bsize, idx) ==
    IF bsize >= 1 /\ n - 1 <= 0
    THEN [kind |-> "IndexError", value |-> <<>>, drawn |-> <<>>]
    ELSE LET got == [i \in 1..bsize |-> get_single_experience(buf, n, idx[i])]
             bad == {i \in 1..bsize : got[i].kind # "ok"}
         IN  IF bad # {}
             THEN [kind |-> got[CHOOSE i \in bad : \A j \in bad : i <= j].kind,
                   value |-> <<>>, drawn |-> idx]
             ELSE [kind |-> "ok",
                   value |-> [i \in 1..bsize |-> got[i].value[1]],
                   drawn |-> idx]

\* deque.clear
clear(buf) == <<>>

\* ------------------------------------------------- history of the last call
NoCall ==
    [op |-> "init", kind |-> "ok", arg |-> 0, ret |-> None, batch |-> <<>>,
     drawn |-> <<>>, appended |-> FALSE, branch |-> "none", trains |-> 0,
     synced |-> FALSE, since_sync |-> 0, before_train |-> None, after_train |-> None]

\* ------------------------------------- a ReplayBuffer used on its own
\* The agent's fields while only a buffer exists
NoAgent ==
    /\ n_action = 1 /\ training_start_from = 0 /\ batch_size = 1 /\ iteration = 1
    /\ qnet = [params |-> 0, nbt |-> 0] /\ qnet_support = [params |-> 0, nbt |-> 0]
    /\ eps_e_greedy = 0 /\ time_tick = 0
    /\ prev_observation = None /\ prev_action = None
    /\ pc = "ready" /\ calls = 0 /\ returned = <<>> /\ reset_after = {}
    /\ last_sync_call = 0 /\ sync_snapshot = 0 /\ train_count = 0

\* The experiences appended to a stand-alone buffer
ExperienceValues ==
    {Experience(Observation(0, v), a, Observation(1, v)) : v \in VectorValues, a \in 0..1}

\* ReplayBuffer(buffer_size)
BufInit ==
    /\ buffer_size \in 0..MaxBufferSize
    /\ buffer_experience = <<>>
    /\ n_experience = 0
    /\ NoAgent
    /\ appended = <<>>
    /\ last = NoCall

BufAppend ==
    /\ Len(appended) < MaxAppends
    /\ \E e \in ExperienceValues :
        /\ buffer_experience' = append(buffer_experience, buffer_size, e)
        /\ appended' = Append(appended, e)
    /\ n_experience' = Len(buffer_experience')
    /\ last' = [NoCall EXCEPT !.op = "append", !.appended = TRUE]
    /\ UNCHANGED <<buffer_size, configVars, agentVars, historyVars>>

BufGetSingle ==
    /\ \E t \in (-(MaxBufferSize + 1))..(MaxBufferSize + 1) :
        LET r == get_single_experience(buffer_experience, n_experience, t)
        IN  last' = [NoCall EXCEPT !.op = "get_single_experience", !.arg = t,
                                   !.kind = r.kind, !.ret = r.value]
    /\ UNCHANGED <<bufferVars, configVars, agentVars, historyVars, appended>>

BufGetBatch ==
    /\ \E b \in {0} \cup BatchSizes :
       \E idx \in batch_draws(n_experience, b) :
        LET r == get_batch_experience(buffer_experience, n_experience, b, idx)
        IN  last' = [NoCall EXCEPT !.op = "get_batch_experience", !.arg = b,
                                   !.kind = r.kind, !.batch = r.value, !.drawn = r.drawn]
    /\ UNCHANGED <<bufferVars, configVars, agentVars, historyVars, appended>>

BufClear ==
    /\ buffer_experience' = clear(buffer_experience)
    /\ n_experience' = Len(buffer_experience')
    /\ appended' = <<>>
    /\ last' = [NoCall EXCEPT !.op = "clear"]
    /\ UNCHANGED <<buffer_size, configVars, agentVars, historyVars>>

BufNext == BufAppend \/ BufGetSingle \/ BufGetBatch \/ BufClear

BufferSpec == BufInit /\ [][BufNext]_vars

\* ------------------------------------------------------------------ QNet
\* QNet.forward: one score per action, a function of the parameters and the
\* input alone (in training mode BatchNorm normalises with the statistics of
\* the input, not with its running buffers)
forward(params, obs, n) ==
    [a \in 0..(n - 1) |-> ((params + 1) * (a + 1) * (obs.image + obs.vector)) % 5]

\* The state_dict after a forward pass: the BatchNorm buffers have advanced
after_forward(net) == [net EXCEPT !.nbt = @ + 1]

\* Faulty variant: the maximal score is returned in place of its index
get_greedy_action_value(params, obs, n) ==
    LET q_val == forward(params, obs, n)
    IN  {q_val[a] : a \in {c \in 0..(n - 1) : \A b \in 0..(n - 1) : q_val[b] <= q_val[c]}}

\* get_greedy_action: the indices topk(1) can return, those of a maximal score
get_greedy_action(params, obs, n) ==
    LET q_val == forward(params, obs, n)
    IN  {a \in 0..(n - 1) : \A b \in 0..(n - 1) : q_val[b] <= q_val[a]}

\* -------------------------------------------------------------- DQNAgent
\* The agent's mutable fields, as one record
Agent ==
    [buffer_experience |-> buffer_experience, n_experience |-> n_experience,
     qnet |-> qnet, qnet_support |-> qnet_support,
     eps_e_greedy |-> eps_e_greedy, time_tick |-> time_tick,
     prev_observation |-> prev_observation, prev_action |-> prev_action]

\* Faulty variant: a truthiness test: the action index 0 counts as no action
has_previous_truthy(ag) ==
    ag.prev_action # None /\ ag.prev_action # Some(0) /\ ag.prev_observation # None

\* step: None not in (self._prev_action, self._prev_observation)
has_previous(ag) == ag.prev_action # None /\ ag.prev_observation # None

\* step, "Stock into the replay buffer"
store_transition(ag, obs_now, maxlen) ==
    IF has_previous(ag)
    THEN LET buf == append(ag.buffer_experience, maxlen,
                           Experience(ag.prev_observation[1], ag.prev_action[1], obs_now))
         IN  [ag EXCEPT !.buffer_experience = buf, !.n_experience = Len(buf)]
    ELSE ag

\* step, "Get Action": random.random() < eps_e_greedy picks the random action
select_action(ag, draw, random_action, greedy_action) ==
    IF draw < ag.eps_e_greedy
    THEN [action |-> random_action, branch |-> "random"]
    ELSE [action |-> greedy_action, branch |-> "greedy"]

\* Faulty variant: training starts at the threshold itself
should_train_at(ag, start_from) == ag.n_experience >= start_from

\* step, "Train Agent": whether train() is called
should_train(ag, start_from) == ag.n_experience > start_from

\* Faulty variant: the optimizer step is applied to the parameters of qnet_support too
train_both(ag, bsize, idx, new_params) ==
    LET data_batch == get_batch_experience(ag.buffer_experience, ag.n_experience, bsize, idx)
    IN  IF data_batch.kind # "ok"
        THEN [kind |-> data_batch.kind, drawn |-> data_batch.drawn, ag |-> ag]
        ELSE [kind |-> "ok", drawn |-> data_batch.drawn,
              ag |-> [ag EXCEPT !.qnet = [params |-> new_params, nbt |-> @.nbt + bsize],
                                !.qnet_support = [params |-> new_params,
                                                  nbt |-> @.nbt + bsize]]]

\* train(): the batch draw, a forward pass of qnet and of qnet_support per
\* experience, and the optimizer step on the parameters of qnet
train(ag, bsize, idx, new_params) ==
    LET data_batch == get_batch_experience(ag.buffer_experience, ag.n_experience, bsize, idx)
    IN  IF data_batch.kind # "ok"
        THEN [kind |-> data_batch.kind, drawn |-> data_batch.drawn, ag |-> ag]
        ELSE [kind |-> "ok", drawn |-> data_batch.drawn,
              ag |-> [ag EXCEPT !.qnet = [params |-> new_params, nbt |-> @.nbt + bsize],
                                !.qnet_support = [@ EXCEPT !.nbt = @ + bsize]]]

\* Faulty variant: the copy goes from qnet_support to qnet
sync_target_reversed(ag, iter) ==
    IF ag.time_tick = iter
    THEN [synced |-> TRUE, ag |-> [ag EXCEPT !.time_tick = 0, !.qnet = ag.qnet_support]]
    ELSE [synced |-> FALSE, ag |-> [ag EXCEPT !.time_tick = @ + 1]]

\* Faulty variant: the sync leaves time_tick where it is
sync_target_no_reset(ag, iter) ==
    IF ag.time_tick = iter
    THEN [synced |-> TRUE, ag |-> [ag EXCEPT !.qnet_support = ag.qnet]]
    ELSE [synced |-> FALSE, ag |-> [ag EXCEPT !.time_tick = @ + 1]]

\* step, "Copy Q net to the support network"
sync_target(ag, iter) ==
    IF ag.time_tick = iter
    THEN [synced |-> TRUE, ag |-> [ag EXCEPT !.time_tick = 0, !.qnet_support = ag.qnet]]
    ELSE [synced |-> FALSE, ag |-> [ag EXCEPT !.time_tick = @ + 1]]

\* step, "Set for next step"
set_previous(ag, obs_now, next_action) ==
    [ag EXCEPT !.prev_observation = Some(obs_now), !.prev_action = Some(next_action)]

\* Faulty variant: the reset also empties the buffer and restarts the tick counter
reset_for_new_episode_all(ag) ==
    [ag EXCEPT !.prev_observation = None, !.prev_action = None,
               !.buffer_experience = <<>>, !.n_experience = 0, !.time_tick = 0]

\* Faulty variant: the reset calls replay_buffer.clear()
reset_for_new_episode_clears(ag) ==
    [ag EXCEPT !.prev_observation = None, !.prev_action = None,
               !.buffer_experience = clear(@), !.n_experience = 0]

\* reset_for_new_episode
reset_for_new_episode(ag) ==
    [ag EXCEPT !.prev_observation = None, !.prev_action = None]

\* The fields of the agent take the values of record ag
Becomes(ag) ==
    /\ buffer_experience' = ag.buffer_experience
    /\ n_experience' = ag.n_experience
    /\ qnet' = ag.qnet
    /\ qnet_support' = ag.qnet_support
    /\ eps_e_greedy' = ag.eps_e_greedy
    /\ time_tick' = ag.time_tick
    /\ prev_observation' = ag.prev_observation
    /\ prev_action' = ag.prev_action

\* DQNAgent(config, n_action, ..., eps_start, device): the networks start with
\* the same state_dict, the buffer empty
Init ==
    /\ buffer_size \in 1..MaxCapacity
    /\ buffer_experience = <<>>
    /\ n_experience = 0
    /\ n_action \in ActionCounts
    /\ training_start_from \in StartValues
    /\ batch_size \in BatchSizes
    /\ iteration \in IterationValues
    /\ qnet = [params |-> 0, nbt |-> 0]
    /\ qnet_support = qnet
    /\ eps_e_greedy \in EpsValues
    /\ time_tick = 0
    /\ prev_observation = None
    /\ prev_action = None
    /\ pc = "ready" /\ calls = 0 /\ returned = <<>> /\ reset_after = {}
    /\ last_sync_call = 0 /\ sync_snapshot = qnet.params /\ train_count = 0
    /\ appended = <<>>
    /\ last = NoCall

\* Faulty variant: train() runs before the action is selected, so that the
\* greedy action comes from the parameters after the update
StepTrainsFirst ==
    /\ pc = "ready"
    /\ calls < MaxSteps
    /\ \E vec \in StepVectors :
        LET obs_now == Observation(calls + 1, vec)
            stored == store_transition(Agent, obs_now, buffer_size)
            acted == [stored EXCEPT !.qnet = after_forward(@)]
            training == should_train(acted, training_start_from)
            choices(online) == {select_action(stored, draw, random_action, greedy_action) :
                                    draw \in RandomDraws,
                                    random_action \in 0..(n_action - 1),
                                    greedy_action \in get_greedy_action(online.params,
                                                                        obs_now, n_action)}
            trainings == IF training
                         THEN {train(acted, batch_size, idx, new_params) :
                                   idx \in batch_draws(acted.n_experience, batch_size),
                                   new_params \in Params}
                         ELSE {[kind |-> "ok", drawn |-> <<>>, ag |-> acted]}
        IN  \E trained \in trainings : \E chosen \in choices(trained.ag.qnet) :
            LET sync == sync_target(trained.ag, iteration)
                call == [NoCall EXCEPT
                            !.op = "step", !.arg = vec, !.kind = trained.kind,
                            !.appended = has_previous(Agent),
                            !.since_sync = calls + 1 - last_sync_call,
                            !.branch = chosen.branch,
                            !.trains = IF training THEN 1 ELSE 0,
                            !.drawn = trained.drawn,
                            !.before_train = IF training THEN Some(acted) ELSE None,
                            !.after_train = IF training THEN Some(trained.ag) ELSE None]
            IN  IF trained.kind # "ok"
                THEN /\ Becomes(trained.ag)
                     /\ pc' = "raised"
                     /\ last' = call
                     /\ UNCHANGED <<returned, last_sync_call, sync_snapshot, train_count>>
                ELSE /\ Becomes(set_previous(sync.ag, obs_now, chosen.action))
                     /\ pc' = pc
                     /\ last' = [call EXCEPT !.ret = Some(chosen.action),
                                             !.synced = sync.synced]
                     /\ returned' = Append(returned, chosen.action)
                     /\ last_sync_call' = IF sync.synced THEN calls + 1 ELSE last_sync_call
                     /\ sync_snapshot' = IF sync.synced THEN trained.ag.qnet.params
                                                        ELSE sync_snapshot
                     /\ train_count' = IF training THEN train_count + 1 ELSE train_count
    /\ calls' = calls + 1
    /\ UNCHANGED <<buffer_size, configVars, reset_after, appended>>

\* step(observation, done), for each outcome of its random draws and of the
\* optimizer step.  An exception out of train() leaves step after the append
\* and the forward pass of the action selection.
Step ==
    /\ pc = "ready"
    /\ calls < MaxSteps
    /\ \E vec \in StepVectors :
        LET obs_now == Observation(calls + 1, vec)
            stored == store_transition(Agent, obs_now, buffer_size)
            acted == [stored EXCEPT !.qnet = after_forward(@)]
            training == should_train(acted, training_start_from)
            choices == {select_action(stored, draw, random_action, greedy_action) :
                            draw \in RandomDraws,
                            random_action \in 0..(n_action - 1),
                            greedy_action \in get_greedy_action(stored.qnet.params,
                                                                obs_now, n_action)}
            trainings == IF training
                         THEN {train(acted, batch_size, idx, new_params) :
                                   idx \in batch_draws(acted.n_experience, batch_size),
                                   new_params \in Params}
                         ELSE {[kind |-> "ok", drawn |-> <<>>, ag |-> acted]}
        IN  \E chosen \in choices, trained \in trainings :
            LET sync == sync_target(trained.ag, iteration)
                call == [NoCall EXCEPT
                            !.op = "step", !.arg = vec, !.kind = trained.kind,
                            !.appended = has_previous(Agent),
                            !.since_sync = calls + 1 - last_sync_call,
                            !.branch = chosen.branch,
                            !.trains = IF training THEN 1 ELSE 0,
                            !.drawn = trained.drawn,
                            !.before_train = IF training THEN Some(acted) ELSE None,
                            !.after_train = IF training THEN Some(trained.ag) ELSE None]
            IN  IF trained.kind # "ok"
                THEN /\ Becomes(trained.ag)
                     /\ pc' = "raised"
                     /\ last' = call
                     /\ UNCHANGED <<returned, last_sync_call, sync_snapshot, train_count>>
                ELSE /\ Becomes(set_previous(sync.ag, obs_now, chosen.action))
                     /\ pc' = pc
                     /\ last' = [call EXCEPT !.ret = Some(chosen.action),
                                             !.synced = sync.synced]
                     /\ returned' = Append(returned, chosen.action)
                     /\ last_sync_call' = IF sync.synced THEN calls + 1 ELSE last_sync_call
                     /\ sync_snapshot' = IF sync.synced THEN trained.ag.qnet.params
                                                        ELSE sync_snapshot
                     /\ train_count' = IF training THEN train_count + 1 ELSE train_count
    /\ calls' = calls + 1
    /\ UNCHANGED <<buffer_size, configVars, reset_after, appended>>

ResetForNewEpisode ==
    /\ pc = "ready"
    /\ Becomes(reset_for_new_episode(Agent))
    /\ reset_after' = reset_after \cup {calls}
    /\ last' = [NoCall EXCEPT !.op = "reset_for_new_episode"]
    /\ UNCHANGED <<buffer_size, configVars, pc, calls, returned, last_sync_call,
                   sync_snapshot, train_count, appended>>

\* the eps_e_greedy setter
SetEps ==
    /\ pc = "ready"
    /\ \E v \in EpsValues \ {eps_e_greedy} :
        Becomes([Agent EXCEPT !.eps_e_greedy = v])
    /\ last' = [NoCall EXCEPT !.op = "eps_e_greedy"]
    /\ UNCHANGED <<buffer_size, configVars, historyVars, appended>>

Next == Step \/ ResetForNewEpisode \/ SetEps

Spec == Init /\ [][Next]_vars

\* ---------------------------------------------------------------- reward
\* Rewards and scores are counted in hundredths, so that -0.01 * x is -x and
\* the clip bounds -3 and +3 are -300 and 300.
RewardValues == {-20, -3, 0, 1, 15}                \* entries of a vector observation
RewardVectors == [1..2 -> RewardValues]            \* vector observations (shape (2,))

\* Tensor.clamp(min, max)
clamp(x, lo, hi) == IF x < lo THEN lo ELSE IF x > hi THEN hi ELSE x

\* vector.pow(2.0).sum()
RECURSIVE pow2_sum(_)
pow2_sum(vec) == IF vec = <<>> THEN 0 ELSE Head(vec) * Head(vec) + pow2_sum(Tail(vec))

\* Faulty variant: the penalty is taken on the vector after the transition
reward_of_next(vector_obs, next_vector_obs) ==
    clamp(-pow2_sum(next_vector_obs), -300, 300)

\* DQNAgent.reward, in hundredths
reward(vector_obs, next_vector_obs) ==
    clamp(-pow2_sum(vector_obs), -300, 300)

\* The other variables while a function is evaluated on its own
NoBuffer ==
    /\ buffer_size = 0 /\ buffer_experience = <<>> /\ n_experience = 0
    /\ appended = <<>>

\* A pair of vector observations is given
RewardInit ==
    /\ NoBuffer
    /\ NoAgent
    /\ \E v \in RewardVectors, w \in RewardVectors :
        last = [NoCall EXCEPT !.op = "reward_input", !.arg = <<v, w>>]

\* reward(vector_obs, next_vector_obs) is evaluated
RewardCall ==
    /\ last.op = "reward_input"
    /\ last' = [last EXCEPT !.op = "reward",
                            !.ret = Some(reward(last.arg[1], last.arg[2]))]
    /\ UNCHANGED <<bufferVars, configVars, agentVars, historyVars, appended>>

RewardNext == RewardCall

RewardSpec == RewardInit /\ [][RewardNext]_vars

\* ------------------------------------------------------------ train loss
\* reward_discount is counted in tenths; a TD error is then in thousandths
\* (the clip bounds -1 and 1 are -1000 and 1000) and its square in millionths.
DiscountValues == {0, 9}                           \* reward_discount
ScoreValues == {-234, -1, 0, 50}                   \* network scores, in hundredths
LossVectors == {<<0, 0>>, <<1, 0>>, <<-3, 15>>}    \* stored vector observations

\* What train() reads of one sampled experience: the stored vector
\* observation, the online score q_val of the stored action and the target
\* network's maximal score q_vec_next at the next observation
LossSamples ==
    [vector : LossVectors, next_vector : {<<0, 0>>},
     q_val : ScoreValues, q_vec_next : ScoreValues]

\* Faulty variant: the discount is left out of the bootstrapped target
td_error_undiscounted(x, discount) ==
    LET target == 10 * reward(x.vector, x.next_vector) + 10 * x.q_vec_next
    IN  clamp(target - 10 * x.q_val, -1000, 1000)

\* train(): (target - q_val).clamp(min=-1, max=1) for one experience
td_error(x, discount) ==
    LET target == 10 * reward(x.vector, x.next_vector) + discount * x.q_vec_next
    IN  clamp(target - 10 * x.q_val, -1000, 1000)

\* train(): the sum of the squared clipped TD errors
RECURSIVE pow2_errors(_, _)
pow2_errors(data_batch, discount) ==
    IF data_batch = <<>> THEN 0
    ELSE LET e == td_error(Head(data_batch), discount)
         IN  e * e + pow2_errors(Tail(data_batch), discount)

\* train(): loss /= self.batch_size, kept as the fraction num / den
loss(data_batch, discount) ==
    [num |-> pow2_errors(data_batch, discount), den |-> Len(data_batch)]

\* A batch and a discount are given
LossInit ==
    /\ NoBuffer
    /\ NoAgent
    /\ \E b \in BatchSizes, discount \in DiscountValues :
       \E data_batch \in [1..b -> LossSamples] :
        last = [NoCall EXCEPT !.op = "loss_input", !.arg = <<data_batch, discount>>]

\* train() computes the loss of the batch
LossCall ==
    /\ last.op = "loss_input"
    /\ last' = [last EXCEPT !.op = "loss", !.ret = Some(loss(last.arg[1], last.arg[2]))]
    /\ UNCHANGED <<bufferVars, configVars, agentVars, historyVars, appended>>

LossNext == LossCall

LossSpec == LossInit /\ [][LossNext]_vars

\* ------------------------------------------------------------------ claims
Min(a, b) == IF a <= b THEN a ELSE b

\* The last k elements of s
LastOf(s, k) == SubSeq(s, Len(s) - k + 1, Len(s))

\* C1: a ReplayBuffer of capacity C never holds more than C experiences, and
\* holds exactly the latest min(C, number of appends) appended experiences,
\* oldest first in their order of appending; so after C + k appends it holds
\* the last C of them.
C1_BoundedFifo ==
    /\ n_experience = Len(buffer_experience)
    /\ n_experience <= buffer_size
    /\ buffer_experience = LastOf(appended, Min(buffer_size, Len(appended)))
    /\ Len(appended) >= buffer_size => n_experience = buffer_size

\* C1 witness: a buffer of capacity 2 after a 4th append, the first appended
\* experience evicted
C1_Witness ==
    /\ last.op = "append" /\ buffer_size = 2 /\ Len(appended) = 4
    /\ appended[1] # appended[3]
    /\ buffer_experience = <<appended[3], appended[4]>>

\* What get_single_experience returned, when it was the latest call
C2_Result ==
    last.op = "get_single_experience" =>
        /\ last.arg >= n_experience - 1 =>
              last.kind = "AssertionError" /\ last.ret = None
        /\ last.arg = 0 /\ n_experience >= 2 =>
              /\ last.kind = "ok"
              /\ last.ret = Some(appended[Len(appended) - n_experience + 1])
              /\ last.ret = Some(buffer_experience[1])

\* C2: get_single_experience with an index >= size - 1 fails with the
\* out-of-range (assertion) error and returns nothing, with index 0 on a buffer
\* of size >= 2 it returns the oldest stored experience, and it never changes
\* the buffer.
C2_SingleOutOfRange ==
    /\ []C2_Result
    /\ [][last'.op = "get_single_experience" => bufferVars' = bufferVars]_vars

\* C2 witness: the index of the newest entry of a buffer of 2 was refused
C2_Witness ==
    /\ last.op = "get_single_experience" /\ n_experience = 2
    /\ last.arg = n_experience - 1 /\ last.kind = "AssertionError"

\* What get_batch_experience returned, when it was the latest call
C3_Result ==
    last.op = "get_batch_experience" =>
        /\ n_experience >= 2 =>
              /\ last.kind = "ok"
              /\ Len(last.batch) = last.arg
              /\ Len(last.drawn) = last.arg
              /\ \A i \in 1..last.arg :
                    /\ last.drawn[i] \in 0..(n_experience - 2)
                    /\ last.batch[i] = buffer_experience[last.drawn[i] + 1]
        /\ n_experience < 2 /\ last.arg >= 1 =>
              last.kind # "ok" /\ last.batch = <<>>

\* C3: get_batch_experience(batch_size) on a buffer of size >= 2 returns
\* batch_size experiences, each the entry at an index in [0, size - 2], and on
\* a buffer of size < 2 with batch_size >= 1 it fails; it never changes the
\* buffer.
C3_BatchBelowNewest ==
    /\ []C3_Result
    /\ [][last'.op = "get_batch_experience" => bufferVars' = bufferVars]_vars

\* C3 witness: a batch of 2 drawn from a buffer of 3, from both sampleable indices
C3_Witness ==
    /\ last.op = "get_batch_experience" /\ last.kind = "ok"
    /\ n_experience = 3 /\ last.drawn = <<1, 0>>
    /\ last.batch = <<buffer_experience[2], buffer_experience[1]>>

\* C4: every step call that completes returns an action index in
\* [0, n_action), from the greedy branch as from the random one, and it is the
\* action recorded as the previous one.
C4_ActionInRange ==
    last.op = "step" /\ last.kind = "ok" =>
        /\ last.branch \in {"greedy", "random"}
        /\ \E a \in 0..(n_action - 1) : last.ret = Some(a)
        /\ prev_action = last.ret

\* C4 witness: with two actions and eps 0, the greedy branch returned action 1
C4_Witness ==
    /\ last.op = "step" /\ last.kind = "ok" /\ n_action = 2
    /\ eps_e_greedy = 0 /\ last.branch = "greedy" /\ last.ret = Some(1)

\* C5 (as claimed): a step call invokes train() once if the buffer size after
\* its append exceeds training_start_from and not at all otherwise, and each
\* invocation draws exactly batch_size experiences.
C5_TrainOncePastWarmup ==
    last.op = "step" =>
        /\ last.trains = (IF n_experience > training_start_from THEN 1 ELSE 0)
        /\ last.trains = 1 => Len(last.drawn) = batch_size

\* The step calls since the latest target sync, the one just made included,
\* when a step call synchronised the target
C6_SyncedAt(gap) ==
    last.op = "step" /\ last.kind = "ok" => (last.synced <=> last.since_sync = gap)

\* C6 (as claimed): with iteration = N >= 1 the target is synchronised on
\* exactly every N-th step call, the first time during the N-th call.
C6_SyncEveryNth == iteration >= 1 => C6_SyncedAt(iteration)

\* What a step of the program may do to the target parameters
C7_TargetStep ==
    /\ (last'.op = "step" /\ last'.synced) => qnet_support'.params = qnet'.params
    /\ qnet_support'.params # qnet_support.params => (last'.op = "step" /\ last'.synced)

\* C7: the target parameters always equal the online parameters of the latest
\* synchronisation point (construction or the last target sync); right after a
\* sync target and online parameters are equal; and no step without a sync
\* changes the target parameters, whatever training does to the online ones.
C7_TargetIsSnapshot ==
    /\ [](qnet_support.params = sync_snapshot)
    /\ [][C7_TargetStep]_vars

\* C7 witness: a training step without a sync left the online parameters
\* different from the target's, which are those of the latest sync
C7_Witness ==
    /\ last.op = "step" /\ last.kind = "ok" /\ last.trains = 1 /\ ~last.synced
    /\ last_sync_call >= 1
    /\ qnet.params # qnet_support.params
    /\ qnet_support.params = sync_snapshot

\* C8: a train() invocation leaves the target parameters, the buffer contents
\* and size, time_tick, epsilon, prev_observation and prev_action as they were.
C8_TrainFrame ==
    last.op = "step" /\ last.trains = 1 =>
        LET b == last.before_train[1]
            a == last.after_train[1]
        IN  /\ a.qnet_support.params = b.qnet_support.params
            /\ a.buffer_experience = b.buffer_experience
            /\ a.n_experience = b.n_experience
            /\ a.time_tick = b.time_tick
            /\ a.eps_e_greedy = b.eps_e_greedy
            /\ a.prev_observation = b.prev_observation
            /\ a.prev_action = b.prev_action

\* C8 witness: a train() invocation that changed the online parameters
C8_Witness ==
    /\ last.op = "step" /\ last.trains = 1 /\ last.kind = "ok"
    /\ last.after_train[1].qnet.params # last.before_train[1].qnet.params
    /\ last.before_train[1].prev_action # None
    /\ last.before_train[1].time_tick >= 1

\* C9: reset_for_new_episode empties prev_observation and prev_action and
\* leaves the buffer, both networks, time_tick and epsilon as they were.
C9_ResetFrame ==
    [][last'.op = "reset_for_new_episode" =>
          /\ prev_observation' = None /\ prev_action' = None
          /\ bufferVars' = bufferVars
          /\ qnet' = qnet /\ qnet_support' = qnet_support
          /\ time_tick' = time_tick /\ eps_e_greedy' = eps_e_greedy]_vars

\* C9 witness: a reset after a step, with a non-empty buffer, a running tick
\* counter and online parameters that differ from the target's
C9_Witness ==
    /\ last.op = "reset_for_new_episode" /\ calls \in reset_after
    /\ prev_observation = None /\ prev_action = None
    /\ n_experience >= 1 /\ time_tick >= 1
    /\ qnet.params # qnet_support.params

\* Whether the step call that just ran appended an experience: the newest
\* entry ends in the frame of this call
C10_AppendedNow ==
    /\ n_experience >= 1
    /\ buffer_experience[n_experience].next_observation.image = calls

\* C10: a step call appends one experience (prev_observation, prev_action,
\* current observation) when a previous observation and action exist, nothing
\* otherwise (so nothing in the first call after construction or after a
\* reset); every experience in the buffer pairs the observations of two
\* consecutive step calls of one episode with the action the earlier call
\* returned.
C10_ConsecutivePairs ==
    /\ \A i \in 1..Len(buffer_experience) :
          LET e == buffer_experience[i]
              k == e.observation.image
          IN  /\ k \in 1..Len(returned)
              /\ e.next_observation.image = k + 1
              /\ k \notin reset_after
              /\ e.action = returned[k]
              /\ \A j \in 1..(i - 1) : buffer_experience[j].observation.image < k
    /\ last.op = "step" =>
          (C10_AppendedNow <=> (calls >= 2 /\ (calls - 1) \notin reset_after))

\* C10 witness: in a run with a reset, a step call appended an experience
\* whose action is index 0
C10_Witness ==
    /\ last.op = "step" /\ C10_AppendedNow /\ reset_after # {}
    /\ buffer_experience[n_experience].action = 0
    /\ n_action = 2

\* C11 (as claimed): with replay_buffer_size >= 1, batch_size >= 1,
\* iteration >= 1 and training_start_from >= 0, no step call raises an error:
\* each runs to completion and returns an action.
C11_StepNeverRaises ==
    (buffer_size >= 1 /\ batch_size >= 1 /\ iteration >= 1 /\ training_start_from >= 0) =>
        /\ pc = "ready"
        /\ last.op = "step" => (last.kind = "ok" /\ last.ret # None)

\* C12: reward(v, v') is -0.01 * sum(v_i^2) clamped to [-3, 3] (here in
\* hundredths): it lies in [-3, 3], is 0 for v = [0, 0], and is the same for
\* every v'.
C12_RewardClamped ==
    last.op = "reward" =>
        LET v == last.arg[1]
            r == last.ret[1]
            penalty == -(v[1] * v[1] + v[2] * v[2])
        IN  /\ r >= -300 /\ r <= 300
            /\ v = <<0, 0>> => r = 0
            /\ r = (IF penalty < -300 THEN -300 ELSE penalty)
            /\ \A w \in RewardVectors : reward(v, w) = r

\* C12 witness: a reward clipped at -3, for a v' that differs from v
C12_Witness ==
    /\ last.op = "reward" /\ last.arg = <<(<<-20, 1>>), (<<0, 0>>)>>
    /\ last.ret = Some(-300)

\* C13 (as claimed): with reward_discount = 0, if for every sampled experience
\* the target network's maximal score equals the online score of the stored
\* action, the batch loss is exactly 0.
C13_ZeroLossOnEqualScores ==
    (/\ last.op = "loss"
     /\ last.arg[2] = 0
     /\ \A i \in 1..Len(last.arg[1]) : last.arg[1][i].q_vec_next = last.arg[1][i].q_val)
    => last.ret[1].num = 0

\* C13 (amended): the batch loss is exactly 0 if for every sampled experience
\* the bootstrapped target reward + discount * target_max equals the online
\* score of the stored action; with reward_discount = 0 that is: the reward
\* equals the online score, whatever the target network's score.
C13_ZeroLossOnEqualTarget ==
    (/\ last.op = "loss"
     /\ \A i \in 1..Len(last.arg[1]) :
           LET x == last.arg[1][i]
           IN  10 * reward(x.vector, x.next_vector) + last.arg[2] * x.q_vec_next
                   = 10 * x.q_val)
    => (last.ret[1].num = 0 /\ last.ret[1].den = Len(last.arg[1]))

\* C13 witness: discount 0, a batch of two experiences with non-zero rewards
\* equal to the online scores and target scores that differ from them
C13_Witness ==
    /\ last.op = "loss" /\ last.arg[2] = 0 /\ Len(last.arg[1]) = 2
    /\ last.arg[1][1].vector = <<1, 0>> /\ last.arg[1][1].q_val = -1
    /\ last.arg[1][1].q_vec_next = 50
    /\ last.arg[1][2].vector = <<-3, 15>> /\ last.arg[1][2].q_val = -234
    /\ last.arg[1][2].q_vec_next = 0
    /\ last.ret[1].num = 0

\* C14 (as claimed): a train() whose batch_size exceeds the size - 1
\* sampleable indices fails with an error and applies no optimizer update.
C14_OversizedBatchFails ==
    (last.op = "step" /\ last.trains = 1 /\ batch_size > n_experience - 1) =>
        /\ last.kind # "ok"
        /\ last.after_train[1].qnet = last.before_train[1].qnet

\* C15 (as claimed): with a sync interval iteration <= 0 no step call
\* completes normally.
C15_BadIntervalFails ==
    iteration <= 0 => ~(last.op = "step" /\ last.kind = "ok")

\* C16 (as claimed): a step performs no training exactly while the buffer
\* size (after its append) is below training_start_from, and trains once the
\* size is equal to or above it.
C16_TrainsAtThreshold ==
    last.op = "step" =>
        /\ n_experience < training_start_from <=> last.trains = 0
        /\ n_experience >= training_start_from <=> last.trains = 1

\* C16 (amended): a step invokes train() once when the buffer size after its
\* append is strictly above training_start_from, and not at all while the size
\* is below or equal to it.
C16_TrainsAboveThreshold ==
    last.op = "step" =>
        /\ n_experience <= training_start_from => last.trains = 0
        /\ n_experience > training_start_from => last.trains = 1

\* C16 witness: a step that appended an experience, bringing the buffer to
\* training_start_from = 1 entries, and did not train
C16_Witness ==
    /\ last.op = "step" /\ last.appended /\ training_start_from = 1
    /\ n_experience = training_start_from /\ last.trains = 0

\* C17 (as claimed): get_single_experience fails for every index outside
\* 0 <= index < size - 1, every negative index included, and returns nothing.
C17_PreconditionEnforced ==
    (last.op = "get_single_experience" /\ ~(0 <= last.arg /\ last.arg < n_experience - 1)) =>
        (last.kind # "ok" /\ last.ret = None)

\* C18: once a step call has performed a training update, every later step
\* call performs exactly one too, whatever resets and target syncs come in
\* between; no operation of the agent makes the buffer smaller.
C18_TrainingAbsorbing ==
    /\ [][(train_count >= 1 /\ calls' = calls + 1) =>
              /\ last'.op = "step" /\ last'.trains = 1 /\ last'.kind = "ok"
              /\ train_count' = train_count + 1]_vars
    /\ [][n_experience' >= n_experience]_vars

\* C18 witness: a second training step, after a reset that followed the first
\* one, in a step that also synchronised the target
C18_Witness ==
    /\ last.op = "step" /\ last.trains = 1 /\ last.kind = "ok" /\ last.synced
    /\ train_count = 2 /\ (calls - 1) \in reset_after

\* C19: a step call appends, then selects its action, then trains, then
\* syncs: a greedy action is one of the parameters qnet had before this
\* step's update; the transition the step appended is in the buffer train()
\* draws from, as the newest entry, which no draw selects; a sync in the same
\* step leaves qnet_support with the parameters from after the update.
C19_StepOrder ==
    (last.op = "step" /\ last.trains = 1) =>
        LET before == last.before_train[1]
        IN  /\ last.appended =>
                /\ before.n_experience >= 1
                /\ before.buffer_experience[before.n_experience].next_observation.image = calls
                /\ \A i \in 1..Len(last.drawn) : last.drawn[i] < before.n_experience - 1
            /\ before.buffer_experience = buffer_experience
            /\ last.kind = "ok" =>
                /\ last.branch = "greedy" =>
                       last.ret[1] \in get_greedy_action(before.qnet.params,
                                                         prev_observation[1], n_action)
                /\ last.synced => qnet_support.params = last.after_train[1].qnet.params

\* C19 witness: a step that appended, chose greedily, trained to parameters
\* whose greedy action is another one, and synced
C19_Witness ==
    /\ last.op = "step" /\ last.trains = 1 /\ last.kind = "ok"
    /\ last.appended /\ last.branch = "greedy" /\ last.synced
    /\ Len(last.drawn) >= 1
    /\ last.after_train[1].qnet.params # last.before_train[1].qnet.params
    /\ last.ret[1] \notin get_greedy_action(last.after_train[1].qnet.params,
                                            prev_observation[1], n_action)

\* C20: for iteration >= 0, time_tick stays within 0..iteration and equals the
\* number of step calls completed since the step call of the latest target
\* sync (since construction before the first sync); only step changes it.
C20_TickCounts ==
    /\ [](iteration >= 0 =>
              /\ 0 <= time_tick /\ time_tick <= iteration
              /\ time_tick = Len(returned) - last_sync_call)
    /\ [][(iteration >= 0 /\ time_tick' # time_tick) =>
              (last'.op = "step" /\ calls' = calls + 1)]_vars

\* C20 witness: one step completed after a sync in the third step, with a
\* reset in between
C20_Witness ==
    /\ iteration = 2 /\ last_sync_call = 3 /\ Len(returned) = 4 /\ time_tick = 1
    /\ 3 \in reset_after

====
